---- MODULE Spec2Model ----
(***************************************************************************)
(* The Fibonacci circuit of src/src/example1.rs: FiboChip::configure       *)
(* declares three equality-enabled advice columns, one selector and the    *)
(* gate "add" = s * (a + b - c); FiboCircuit::synthesize lays out one      *)
(* region per row (assign_first_row, then assign_row in a loop); main      *)
(* hands the circuit to MockProver::run and calls assert_satisfied.        *)
(*                                                                         *)
(* The field Fp is modelled by the integers modulo FieldOrder; the gate    *)
(* only adds and subtracts cell values and multiplies by a 0/1 selector.   *)
(***************************************************************************)
EXTENDS Integers, Sequences, FiniteSets, TLC

VARIABLES circuit, cs, prover, prev_b, prev_c, i, pc, result, report, calls

vars == <<circuit, cs, prover, prev_b, prev_c, i, pc, result, report, calls>>

----------------------------------------------------------------------------
(* Bounds and program constants *)

\* order of the modelled field (stands for the Pallas base field of Fp)
FieldOrder == 61

\* seeds are drawn from the MaxSeed + 1 smallest and the MaxSeed largest field elements
MaxSeed == 5

\* main: let k = 4
k == 4

\* variant of the loop bound: an inclusive range 3..=10
LoopEnd_inclusive == 10 + 1

\* synthesize: for _i in 3..10
LoopStart == 3
LoopEnd == 10

\* indices of config.advice: [col_a, col_b, col_c]
col_a == 0
col_b == 1
col_c == 2

Field == 0 .. (FieldOrder - 1)
NumRows == 2 ^ k
Rows == 0 .. (NumRows - 1)
Columns == {col_a, col_b, col_c}
Cells == Columns \X Rows

----------------------------------------------------------------------------
(* Option<F> / Value<F>: <<>> is None / unknown, <<v>> is Some(v) / known *)

None == <<>>
Some(v) == <<v>>
IsKnown(o) == Len(o) = 1
Unwrap(o) == o[1]
\* the seeds a circuit is built with: absent, or a field element near 0 or near -1
SeedValues == {v \in Field : v <= MaxSeed \/ v >= FieldOrder - MaxSeed}
Seeds == {None} \cup {Some(v) : v \in SeedValues}

(* Field arithmetic, as used by a + b and s * (a + b - c) *)
FAdd(x, y) == (x + y) % FieldOrder
FSub(x, y) == (x + FieldOrder - y) % FieldOrder
FMul(x, y) == (x * y) % FieldOrder

\* variant of the sum: the second operand is dropped
AndThenFirst(x, y) == IF IsKnown(x) /\ IsKnown(y) THEN Some(Unwrap(x)) ELSE None

\* a.and_then(|a| b.map(|b| a + b))
AndThenAdd(x, y) == IF IsKnown(x) /\ IsKnown(y) THEN Some(FAdd(Unwrap(x), Unwrap(y))) ELSE None

----------------------------------------------------------------------------
(* The constraint system built by FiboChip::configure *)

configure_result == [equality |-> {col_a, col_b, col_c}, gates |-> {"add"}]

\* the polynomial of the gate "add" at one row: s * (a + b - c)
add_gate(s, a, b, c) == FMul(s, FSub(FAdd(a, b), c))

----------------------------------------------------------------------------
(* The trace held by the prover: advice cells, selector, copy constraints. *)
(* writes counts the assignments each cell has received; cursor is the     *)
(* first row that no region occupies yet.                                  *)

EmptyProver ==
    [advice   |-> [c \in Cells |-> None],
     selector |-> [r \in Rows |-> FALSE],
     copies   |-> {},
     writes   |-> [c \in Cells |-> 0],
     cursor   |-> 0]

\* an AssignedCell: the cell's address and the value it was given
ACell(col, row, v) == [cell |-> <<col, row>>, value |-> v]
NoCell == [cell |-> <<>>, value |-> None]

\* variants of enable: the selector is left off; offset 0 is taken as the absolute row 0
enable_noop(p, row) == p
enable_absolute(p, row) == [p EXCEPT !.selector[0] = TRUE]

\* Selector::enable(region, 0) in the region starting at row
enable(p, row) == [p EXCEPT !.selector[row] = TRUE]

\* Region::assign_advice(column, 0, || value) with a known value
assign_advice(p, col, row, v) ==
    [p EXCEPT !.advice[<<col, row>>] = Some(v),
              !.writes[<<col, row>>] = @ + 1]

\* variant of constrain_equal: the new cell is pinned to itself
constrain_equal_reflexive(p, new, src) == [p EXCEPT !.copies = @ \cup {<<new, new>>}]

\* Region::constrain_equal(new cell, source cell)
constrain_equal(p, new, src) == [p EXCEPT !.copies = @ \cup {<<new, src>>}]

\* variant of copy_advice: the value is written but no copy constraint is raised
copy_advice_unconstrained(p, src, col, row) ==
    [p EXCEPT !.advice[<<col, row>>] = Some(Unwrap(src.value)),
              !.writes[<<col, row>>] = @ + 1]

\* AssignedCell::copy_advice: assign the handle's value, then constrain equal
copy_advice(p, src, col, row) ==
    constrain_equal(assign_advice(p, col, row, Unwrap(src.value)), <<col, row>>, src.cell)

\* variant of next_region: every region starts at the same row
next_region_stuck(p) == p

\* the region is laid out: the next region starts one row below
next_region(p) == [p EXCEPT !.cursor = @ + 1]

----------------------------------------------------------------------------
(* FiboChip::assign_first_row(a, b): enable the selector, then assign      *)
(* a.unwrap(), b.unwrap() and c_val.unwrap(). The prover evaluates each    *)
(* value closure when the cell is assigned, so unwrap of None panics there,*)
(* after the writes that precede it.                                       *)

assign_first_row(p, a, b) ==
    LET row == p.cursor
        p0  == enable(p, row)
    IN  IF row >= NumRows
        THEN [prover |-> p, result |-> "Err", cells |-> <<NoCell, NoCell, NoCell>>]
        ELSE IF ~IsKnown(a)
        THEN [prover |-> p0, result |-> "panic", cells |-> <<NoCell, NoCell, NoCell>>]
        ELSE LET p1 == assign_advice(p0, col_a, row, Unwrap(a))
             IN  IF ~IsKnown(b)
                 THEN [prover |-> p1, result |-> "panic", cells |-> <<NoCell, NoCell, NoCell>>]
                 ELSE LET p2    == assign_advice(p1, col_b, row, Unwrap(b))
                          c_val == AndThenAdd(a, b)
                          p3    == assign_advice(p2, col_c, row, Unwrap(c_val))
                      IN  [prover |-> next_region(p3),
                           result |-> "Ok",
                           cells  |-> <<ACell(col_a, row, a), ACell(col_b, row, b),
                                        ACell(col_c, row, c_val)>>]

\* variant of assign_row: prev_c is copied into column a and prev_b into column b
assign_row_swapped(p, sys, pb, pc_) ==
    LET row == p.cursor
        p0  == [p EXCEPT !.selector[row] = TRUE]
        wr(q, col, src) ==
            [q EXCEPT !.advice[<<col, row>>] = Some(Unwrap(src.value)),
                      !.writes[<<col, row>>] = @ + 1,
                      !.copies = @ \cup {<<(<<col, row>>), src.cell>>}]
        p2  == wr(wr(p0, 0, pc_), 1, pb)
        c   == (Unwrap(pb.value) + Unwrap(pc_.value)) % FieldOrder
        p3  == [p2 EXCEPT !.advice[<<2, row>>] = Some(c), !.writes[<<2, row>>] = @ + 1,
                          !.cursor = @ + 1]
    IN  [prover |-> p3, result |-> "Ok", cell |-> [cell |-> <<2, row>>, value |-> Some(c)]]

(* FiboChip::assign_row(prev_b, prev_c): enable the selector, copy prev_b  *)
(* into column a and prev_c into column b, assign c = prev_b + prev_c.     *)
(* An unknown value, or a copy into a column without equality, is an Err.  *)

assign_row(p, sys, pb, pc_) ==
    LET row == p.cursor
        p0  == enable(p, row)
    IN  IF row >= NumRows
        THEN [prover |-> p, result |-> "Err", cell |-> NoCell]
        ELSE IF ~IsKnown(pb.value) \/ ~IsKnown(pc_.value)
                \/ ~({col_a, col_b, pb.cell[1], pc_.cell[1]} \subseteq sys.equality)
        THEN [prover |-> p0, result |-> "Err", cell |-> NoCell]
        ELSE LET p1    == copy_advice(p0, pb, col_a, row)
                 p2    == copy_advice(p1, pc_, col_b, row)
                 c_val == AndThenAdd(pb.value, pc_.value)
                 p3    == assign_advice(p2, col_c, row, Unwrap(c_val))
             IN  [prover |-> next_region(p3), result |-> "Ok",
                  cell |-> ACell(col_c, row, c_val)]

\* variant of the update: prev_b is not moved forward
thread_keeps_prev_b(pb, pc_, c) == [prev_b |-> pb, prev_c |-> c]

\* the loop body's update: prev_b = prev_c; prev_c = c
thread(pb, pc_, c) == [prev_b |-> pc_, prev_c |-> c]

----------------------------------------------------------------------------
(* The check main runs on the trace (MockProver::run(..).assert_satisfied): *)
(* the gate "add" of configure is evaluated at every row, and the two      *)
(* cells of every copy constraint raised by assign_row are compared. A     *)
(* failed gate is reported by its row, a failed copy constraint by its     *)
(* pair of cells. An unassigned cell evaluates to zero.                    *)

CellValue(p, cell) == IF IsKnown(p.advice[cell]) THEN Unwrap(p.advice[cell]) ELSE 0

SelectorValue(p, row) == IF p.selector[row] THEN 1 ELSE 0

GateFailures(p, sys) ==
    IF "add" \in sys.gates
    THEN {r \in Rows : add_gate(SelectorValue(p, r), CellValue(p, <<col_a, r>>),
                                CellValue(p, <<col_b, r>>), CellValue(p, <<col_c, r>>)) # 0}
    ELSE {}

CopyFailures(p) == {e \in p.copies : CellValue(p, e[1]) # CellValue(p, e[2])}

verify(p, sys) == [gates |-> GateFailures(p, sys), copies |-> CopyFailures(p)]

NoFailures == [gates |-> {}, copies |-> {}]

----------------------------------------------------------------------------
(* The program: main builds the circuit, MockProver::run configures and    *)
(* synthesizes, assert_satisfied verifies.                                 *)

Init ==
    /\ circuit \in [a : Seeds, b : Seeds]
    /\ cs = [equality |-> {}, gates |-> {}]
    /\ prover = EmptyProver
    /\ prev_b = NoCell
    /\ prev_c = NoCell
    /\ i = LoopStart
    /\ pc = "main"
    /\ result = "none"
    /\ report = NoFailures
    /\ calls = [assign_first_row |-> 0, assign_row |-> 0]

\* FiboCircuit::without_witnesses: the same circuit with both seeds absent
without_witnesses ==
    /\ pc = "main"
    /\ circuit' = [a |-> None, b |-> None]
    /\ UNCHANGED <<cs, prover, prev_b, prev_c, i, pc, result, report, calls>>

\* FiboCircuit::configure -> FiboChip::configure
configure ==
    /\ pc = "main"
    /\ cs' = configure_result
    /\ pc' = "first_row"
    /\ UNCHANGED <<circuit, prover, prev_b, prev_c, i, result, report, calls>>

\* synthesize, up to the loop: let (_, prev_b, prev_c) = assign_first_row(a, b)?
synthesize_first_row ==
    /\ pc = "first_row"
    /\ LET r == assign_first_row(prover, circuit.a, circuit.b)
       IN  /\ prover' = r.prover
           /\ calls' = [calls EXCEPT !.assign_first_row = @ + 1]
           /\ IF r.result = "Ok"
              THEN /\ prev_b' = r.cells[2]
                   /\ prev_c' = r.cells[3]
                   /\ pc' = "loop"
                   /\ result' = result
              ELSE /\ pc' = "aborted"
                   /\ result' = r.result
                   /\ UNCHANGED <<prev_b, prev_c>>
    /\ UNCHANGED <<circuit, cs, i, report>>

\* one iteration of the loop: c = assign_row(&prev_b, &prev_c)?; thread the cells
synthesize_loop ==
    /\ pc = "loop"
    /\ i < LoopEnd
    /\ LET r == assign_row(prover, cs, prev_b, prev_c)
       IN  /\ prover' = r.prover
           /\ calls' = [calls EXCEPT !.assign_row = @ + 1]
           /\ IF r.result = "Ok"
              THEN /\ prev_b' = thread(prev_b, prev_c, r.cell).prev_b
                   /\ prev_c' = thread(prev_b, prev_c, r.cell).prev_c
                   /\ i' = i + 1
                   /\ UNCHANGED <<pc, result>>
              ELSE /\ pc' = "aborted"
                   /\ result' = r.result
                   /\ UNCHANGED <<prev_b, prev_c, i>>
    /\ UNCHANGED <<circuit, cs, report>>

\* the loop is exhausted: Ok(())
synthesize_return ==
    /\ pc = "loop"
    /\ i >= LoopEnd
    /\ pc' = "synthesized"
    /\ result' = "Ok"
    /\ UNCHANGED <<circuit, cs, prover, prev_b, prev_c, i, report, calls>>

\* prover.assert_satisfied(): verify and panic on any failure
assert_satisfied ==
    /\ pc = "synthesized"
    /\ report' = verify(prover, cs)
    /\ pc' = IF verify(prover, cs) = NoFailures THEN "satisfied" ELSE "unsatisfied"
    /\ UNCHANGED <<circuit, cs, prover, prev_b, prev_c, i, result, calls>>

Next ==
    \/ without_witnesses
    \/ configure
    \/ synthesize_first_row
    \/ synthesize_loop
    \/ synthesize_return
    \/ assert_satisfied

Spec == Init /\ [][Next]_vars

----------------------------------------------------------------------------
(* Vocabulary of the properties *)

Finished == pc \in {"synthesized", "satisfied", "unsatisfied"}

KnownSeeds == IsKnown(circuit.a) /\ IsKnown(circuit.b)

\* the concrete scenario of main: k = 4, a = 1, b = 1
Scenario == k = 4 /\ circuit = [a |-> Some(1), b |-> Some(1)]

Val(col, row) == CellValue(prover, <<col, row>>)

AssignedCells(p) == {c \in Cells : IsKnown(p.advice[c])}

\* the trace with one advice cell overwritten, selectors and copy constraints kept
Overwrite(p, cell, v) == [p EXCEPT !.advice[cell] = Some(v)]

\* the c values of the rows laid out so far, first row first
CSeq(p) == [n \in 1 .. p.cursor |-> CellValue(p, <<col_c, n - 1>>)]

\* the rows a report mentions: rows of failed gates, rows of cells of failed copies
ViolationRows(rep) ==
    rep.gates \cup {e[1][2] : e \in rep.copies} \cup {e[2][2] : e \in rep.copies}

\* the cell that the driver hands to assign_row as the source of column col of row r
Source(col, r) ==
    IF col = col_a THEN (IF r = 1 THEN <<col_b, 0>> ELSE <<col_c, r - 2>>)
    ELSE <<col_c, r - 1>>

----------------------------------------------------------------------------
\* C1: with both seeds known, synthesize never aborts, calls assign_first_row once
\* and assign_row once per loop iteration, and the checker finds no violation in
\* the finished trace: a + b = c on every row whose selector is enabled, and the
\* two cells of every raised copy constraint hold the same value.
C1_SynthesizedTraceSatisfied ==
    KnownSeeds =>
        /\ pc \notin {"aborted", "unsatisfied"}
        /\ Finished =>
            /\ calls = [assign_first_row |-> 1, assign_row |-> LoopEnd - LoopStart]
            /\ verify(prover, cs) = NoFailures
            /\ \A r \in Rows : prover.selector[r] =>
                   FAdd(Val(col_a, r), Val(col_b, r)) = Val(col_c, r)
            /\ \A e \in prover.copies : CellValue(prover, e[1]) = CellValue(prover, e[2])
        /\ pc = "satisfied" => report = NoFailures

\* a satisfied run whose sums wrapped around the field order
C1_Witness ==
    /\ pc = "satisfied"
    /\ KnownSeeds
    /\ Cardinality(prover.copies) = 2 * (LoopEnd - LoopStart)
    /\ \E r \in 1 .. (prover.cursor - 1) : Val(col_c, r) < Val(col_c, r - 1)

----------------------------------------------------------------------------
\* C2 as stated: in the scenario k = 4, a = 1, b = 1 the driver calls assign_row
\* 8 times (8 rows after the first), the c values are 2, 3, 5, 8, 13, 21, 34, 55
\* and the checker is satisfied.
C2_EightAssignRowCalls ==
    (Scenario /\ Finished) =>
        /\ calls.assign_row = 8
        /\ prover.cursor = 9
        /\ CSeq(prover) = <<2, 3, 5, 8, 13, 21, 34, 55>>
        /\ verify(prover, cs) = NoFailures

\* C2 amended: in the scenario the driver calls assign_row 7 times (7 rows after
\* the first, 8 rows in all); the c values of the 8 rows, the first row's included,
\* are 2, 3, 5, 8, 13, 21, 34, 55; the checker is satisfied.
C2_SevenAssignRowCalls ==
    Scenario =>
        /\ pc \notin {"aborted", "unsatisfied"}
        /\ Finished =>
            /\ calls.assign_row = 7
            /\ prover.cursor = 8
            /\ CSeq(prover) = <<2, 3, 5, 8, 13, 21, 34, 55>>
            /\ verify(prover, cs) = NoFailures
        /\ pc = "satisfied" => report = NoFailures

C2_Witness == Scenario /\ pc = "satisfied" /\ Val(col_c, 7) = 55

----------------------------------------------------------------------------
\* C3: in every row n >= 2 laid out, c of row n is the sum of c of row n-1 and c
\* of row n-2, which appear as b and a of row n; the finished trace has all its
\* rows laid out.
C3_PairwiseSumRecurrence ==
    /\ \A n \in 2 .. (prover.cursor - 1) :
          /\ Val(col_c, n) = FAdd(Val(col_c, n - 1), Val(col_c, n - 2))
          /\ Val(col_b, n) = Val(col_c, n - 1)
          /\ Val(col_a, n) = Val(col_c, n - 2)
    /\ Finished => prover.cursor = 1 + LoopEnd - LoopStart

C3_Witness ==
    /\ pc = "synthesized"
    /\ prover.cursor > 2
    /\ \E n \in 2 .. (prover.cursor - 1) :
          Val(col_c, n) # 0 /\ Val(col_c, n) < Val(col_c, n - 1)

----------------------------------------------------------------------------
\* C4: overwriting any single assigned advice cell of a synthesized trace with any
\* other field value makes the checker report at least one failed gate or copy
\* constraint.
C4_SingleCellTamperDetected ==
    pc = "synthesized" =>
        \A cell \in AssignedCells(prover) :
            \A v \in Field \ {CellValue(prover, cell)} :
                verify(Overwrite(prover, cell, v), cs) # NoFailures

\* all 24 cells are assigned, and overwriting the last c, which no copy constraint
\* mentions, is caught by the gate of its row alone
C4_Witness ==
    /\ pc = "synthesized"
    /\ AssignedCells(prover) = Columns \X (0 .. (prover.cursor - 1))
    /\ prover.cursor = 1 + LoopEnd - LoopStart
    /\ LET last == <<col_c, prover.cursor - 1>>
       IN  verify(Overwrite(prover, last, FAdd(CellValue(prover, last), 1)), cs)
               = [gates |-> {prover.cursor - 1}, copies |-> {}]

----------------------------------------------------------------------------
----------------------------------------------------------------------------
\* C6: when a cell written by copy (a or b of a row laid out by assign_row) holds
\* a value different from its source cell, the checker reports that cell pair
\* among the failed copy constraints, separately from the failed gates: it does so
\* when the gate of the row fails too, and when c of the row is adjusted so that
\* the gate of the row is satisfied.
C6_CopyViolationReported ==
    pc = "synthesized" =>
        \A r \in 1 .. (prover.cursor - 1) : \A col \in {col_a, col_b} :
            \A v \in Field \ {Val(col, r)} :
                LET cell == <<col, r>>
                    t1   == Overwrite(prover, cell, v)
                    t2   == Overwrite(t1, <<col_c, r>>,
                                FAdd(CellValue(t1, <<col_a, r>>), CellValue(t1, <<col_b, r>>)))
                IN  /\ <<cell, Source(col, r)>> \in verify(t1, cs).copies
                    /\ r \in verify(t1, cs).gates
                    /\ <<cell, Source(col, r)>> \in verify(t2, cs).copies
                    /\ r \notin verify(t2, cs).gates

\* a of row 1 differs from its source b of row 0 while the gate of row 1 holds
C6_Witness ==
    /\ pc = "synthesized"
    /\ prover.cursor = 1 + LoopEnd - LoopStart
    /\ LET t1 == Overwrite(prover, <<col_a, 1>>, FAdd(Val(col_a, 1), 1))
           t2 == Overwrite(t1, <<col_c, 1>>, FAdd(Val(col_c, 1), 1))
       IN  /\ <<(<<col_a, 1>>), (<<col_b, 0>>)>> \in verify(t2, cs).copies
           /\ 1 \notin verify(t2, cs).gates

----------------------------------------------------------------------------
\* C7: when seed a or seed b is absent, assign_first_row returns an error that
\* synthesize propagates: it does not terminate abnormally, it writes no value
\* into the cell of the absent seed, and assign_row is never called.
C7_MissingWitnessIsAnError ==
    (~KnownSeeds /\ calls.assign_first_row = 1) =>
        /\ pc = "aborted"
        /\ result = "Err"
        /\ calls.assign_row = 0
        /\ ~IsKnown(circuit.a) => ~IsKnown(prover.advice[<<col_a, 0>>])
        /\ ~IsKnown(circuit.b) => ~IsKnown(prover.advice[<<col_b, 0>>])

----------------------------------------------------------------------------
----------------------------------------------------------------------------
\* C9: each assign_row call raises exactly two copy constraints, (a of the new
\* row, prev_b) and (b of the new row, prev_c), and writes prev_b + prev_c into c
\* of the new row; the driver then sets (prev_b, prev_c) to (prev_c, c); in every
\* trace, a of row n+1 equals b of row n and b of row n+1 equals c of row n.
C9_Step ==
    (pc = "loop" /\ calls'.assign_row = calls.assign_row + 1) =>
        LET row == prover.cursor
        IN  /\ prover'.copies \ prover.copies =
                   {<<(<<col_a, row>>), prev_b.cell>>, <<(<<col_b, row>>), prev_c.cell>>}
            /\ Cardinality(prover'.copies) = Cardinality(prover.copies) + 2
            /\ prover'.advice[<<col_a, row>>] = prev_b.value
            /\ prover'.advice[<<col_b, row>>] = prev_c.value
            /\ prover'.advice[<<col_c, row>>] =
                   Some(FAdd(Unwrap(prev_b.value), Unwrap(prev_c.value)))
            /\ prev_b' = prev_c
            /\ prev_c' = ACell(col_c, row, prover'.advice[<<col_c, row>>])

C9_Chained ==
    \A n \in 0 .. (prover.cursor - 2) :
        Val(col_a, n + 1) = Val(col_b, n) /\ Val(col_b, n + 1) = Val(col_c, n)

C9_CopiesThreaded == [](C9_Chained) /\ [][C9_Step]_vars

\* after two assign_row calls: four copy constraints, the handles moved forward
C9_Witness ==
    /\ pc = "loop"
    /\ calls.assign_row = 2
    /\ Cardinality(prover.copies) = 4
    /\ prev_b.cell = <<col_c, 1>>
    /\ prev_c.cell = <<col_c, 2>>
    /\ Val(col_a, 2) # Val(col_b, 2)

----------------------------------------------------------------------------
\* C10: every cell is written at most once and the rows used never exceed the
\* 2^k rows of the trace; no step rewrites an assigned cell or writes outside the
\* row at the cursor; each call that returns a cell moves the cursor down by
\* exactly one row and writes each of the three advice cells of its row once.
C10_WriteOnce ==
    /\ \A c \in Cells : prover.writes[c] <= 1
    /\ \A c \in Cells : IsKnown(prover.advice[c]) <=> prover.writes[c] = 1
    /\ prover.cursor <= NumRows
    /\ NumRows = 16

C10_Step ==
    /\ \A c \in Cells :
          /\ prover.writes[c] >= 1 =>
                 prover'.writes[c] = prover.writes[c] /\ prover'.advice[c] = prover.advice[c]
          /\ prover'.writes[c] # prover.writes[c] => c[2] = prover.cursor
    /\ calls' = calls => prover' = prover
    /\ (calls' # calls /\ pc' # "aborted") =>
          /\ prover'.cursor = prover.cursor + 1
          /\ \A col \in Columns :
                /\ prover.writes[<<col, prover.cursor>>] = 0
                /\ prover'.writes[<<col, prover.cursor>>] = 1

====
